---- MODULE Spec2Model ----
(***************************************************************************)
(* A model of the Claude compatibility shim of gemini-cli:                 *)
(*   ClaudeContentGenerator (core/claudeContentGenerator.ts) delegating to *)
(*   ClaudeAdapter (adapters/claudeAdapter.ts), which converts a Gemini    *)
(*   request to the Anthropic format, calls client.messages.create and     *)
(*   converts the answer back.                                             *)
(*                                                                         *)
(* JavaScript values are tagged records, so that any two of them can be    *)
(* compared: Undefined, Str(text), Num(n), Obj(name).  A text is a         *)
(* sequence of one-character strings, so that trim() and concatenation are *)
(* computed, not assumed.  An error message is a text of message segments: *)
(* a template literal `${a}${b}` is the concatenation a \o b.              *)
(***************************************************************************)
EXTENDS Integers, Sequences, FiniteSets, TLC

\* ------------------------------------------------------------ bounds
MaxTextLen == 2
MaxSysParts == 2
MaxBlocks == 3
MaxEvents == 3
MaxParts == 2
MaxContents == 3

\* ------------------------------------------------------- JS values
Undefined == [t |-> "undefined"]
Str(s) == [t |-> "string", v |-> s]
Num(n) == [t |-> "number", v |-> n]
Obj(o) == [t |-> "object", v |-> o]
Bool(b) == [t |-> "boolean", v |-> b]
Null == [t |-> "null"]
EmptyObject == Obj("{}")

\* JavaScript truthiness of the values the code tests with if (...) and ||.
Truthy(x) ==
  CASE x.t = "undefined" -> FALSE
    [] x.t = "string" -> x.v # <<>>
    [] x.t = "number" -> x.v # 0
    [] x.t = "boolean" -> x.v
    [] x.t = "null" -> FALSE
    [] OTHER -> TRUE

\* obj.f, undefined when obj has no key f
Get(obj, f) == IF f \in DOMAIN obj THEN obj[f] ELSE Undefined

\* a || b
OrElse(a, b) == IF Truthy(a) THEN a ELSE b

IsWhitespace(c) == c \in {" ", "\t", "\n"}

RECURSIVE TrimStart(_)
TrimStart(s) ==
  IF s # <<>> /\ IsWhitespace(Head(s)) THEN TrimStart(Tail(s)) ELSE s

RECURSIVE TrimEnd(_)
TrimEnd(s) ==
  IF s # <<>> /\ IsWhitespace(s[Len(s)])
  THEN TrimEnd(SubSeq(s, 1, Len(s) - 1))
  ELSE s

\* String.prototype.trim()
Trim(s) == TrimEnd(TrimStart(s))

\* All sequences over S of length at most n.
SeqsUpTo(S, n) == UNION {[1..k -> S] : k \in 0..n}

Arr(s) == [t |-> "array", v |-> s]
IsArray(x) == x.t = "array"

\* ------------------------------------------------ program constants
DefaultMaxTokens == 4096

EmbedErrorCore == "Embedding not supported for Claude models"

\* new Error(message) and a thrown value that is no Error.
NewError(message) == [kind |-> "Error", message |-> message]
Thrown(value) == [kind |-> "value", str |-> value]

\* error instanceof Error ? error.message : String(error)
MessageOf(error) == IF error.kind = "Error" THEN error.message ELSE error.str

\* ---------------------------------------------- Date.now() readings
\* A conversion reads the clock once per functionCall / functionResponse
\* part.  clock.t0 is the time when the conversion starts and the clock
\* advances by one millisecond after clock.tickAt parts have been seen.
DateNow(clock, k) == clock.t0 + (IF k > clock.tickAt THEN 1 ELSE 0)

ToolId(stamp) == [t |-> "id", prefix |-> "tool_", stamp |-> stamp]

\* JSON.stringify(value): undefined for undefined, a string otherwise.
JSONStringify(x) == IF x.t = "undefined" THEN Undefined ELSE [t |-> "json", of |-> x]

\* ------------------------------------------- ClaudeAdapter: request
\* The loop body of convertPartsToClaudeContent for one part, the k-th
\* part of the request: the blocks it pushes.
ConvertPart(part, clock, k) ==
  IF Truthy(part.text)
  THEN <<[type |-> "text", text |-> part.text]>>
  ELSE IF Truthy(part.functionCall)
  THEN <<[type |-> "tool_use", id |-> ToolId(DateNow(clock, k)),
          name |-> part.functionCall.name,
          input |-> OrElse(part.functionCall.args, EmptyObject)]>>
  ELSE IF Truthy(part.functionResponse)
  THEN <<[type |-> "tool_result", tool_use_id |-> ToolId(DateNow(clock, k)),
          content |-> JSONStringify(part.functionResponse.response)]>>
  ELSE <<>>

RECURSIVE ConvertPartsFrom(_, _, _, _)
ConvertPartsFrom(parts, i, clock, offset) ==
  IF i > Len(parts) THEN <<>>
  ELSE ConvertPart(parts[i], clock, offset + i)
         \o ConvertPartsFrom(parts, i + 1, clock, offset)

\* convertPartsToClaudeContent(parts); offset parts came before these.
ConvertPartsToClaudeContent(parts, clock, offset) ==
  ConvertPartsFrom(parts, 1, clock, offset)

\* content.parts || []
PartsOf(content) == IF Truthy(content.parts) THEN content.parts.v ELSE <<>>

RECURSIVE ConvertContentsFrom(_, _, _, _)
\* Mutant: a content of another role is sent as a user message.
ConvertContentsKeepingAll(contents, i, clock, offset) ==
  IF i > Len(contents) THEN <<>>
  ELSE LET content == contents[i]
           rest == ConvertContentsFrom(contents, i + 1, clock,
                                       offset + Len(PartsOf(content)))
       IN  <<[role |-> IF content.role = "model" THEN "assistant" ELSE "user",
              content |-> ConvertPartsToClaudeContent(PartsOf(content), clock, offset)]>>
             \o rest

ConvertContentsFrom(contents, i, clock, offset) ==
  IF i > Len(contents) THEN <<>>
  ELSE LET content == contents[i]
           rest == ConvertContentsFrom(contents, i + 1, clock,
                                       offset + Len(PartsOf(content)))
       IN  IF content.role = "user"
           THEN <<[role |-> "user",
                   content |-> ConvertPartsToClaudeContent(PartsOf(content), clock, offset)]>>
                  \o rest
           ELSE IF content.role = "model"
           THEN <<[role |-> "assistant",
                   content |-> ConvertPartsToClaudeContent(PartsOf(content), clock, offset)]>>
                  \o rest
           ELSE rest

\* Array.isArray(request.contents) ? request.contents : []
ContentsList(contents) == IF IsArray(contents) THEN contents.v ELSE <<>>

RECURSIVE SystemTextFrom(_, _)
SystemTextFrom(parts, i) ==
  IF i > Len(parts) THEN <<>>
  ELSE (IF Truthy(parts[i].text) THEN parts[i].text.v \o <<" ">> ELSE <<>>)
         \o SystemTextFrom(parts, i + 1)

\* request.config?.x
ConfigField(request, f) ==
  IF request.config.t = "undefined" THEN Undefined ELSE request.config[f]

\* Mutant: the trim() after the loop is left out.
SystemPromptUntrimmed(request) ==
  LET si == ConfigField(request, "systemInstruction")
  IN  IF ~Truthy(si) THEN <<>>
      ELSE IF si.t = "string" THEN si.v
      ELSE IF si.t = "content"
      THEN SystemTextFrom(IF Truthy(si.parts) THEN si.parts.v ELSE <<>>, 1)
      ELSE <<>>

\* The systemPrompt computed by convertToClaudeFormat (a text).
SystemPrompt(request) ==
  LET si == ConfigField(request, "systemInstruction")
  IN  IF ~Truthy(si) THEN <<>>
      ELSE IF si.t = "string" THEN si.v
      ELSE IF si.t = "content"
      THEN Trim(SystemTextFrom(IF Truthy(si.parts) THEN si.parts.v ELSE <<>>, 1))
      ELSE <<>>

RECURSIVE ConvertDeclsFrom(_, _)
ConvertDeclsFrom(decls, i) ==
  IF i > Len(decls) THEN <<>>
  ELSE <<[name |-> decls[i].name, description |-> decls[i].description,
          input_schema |-> OrElse(decls[i].parameters, EmptyObject)]>>
         \o ConvertDeclsFrom(decls, i + 1)

RECURSIVE ConvertToolsFrom(_, _)
ConvertToolsFrom(tools, i) ==
  IF i > Len(tools) THEN <<>>
  ELSE (IF Truthy(tools[i].functionDeclarations)
        THEN ConvertDeclsFrom(tools[i].functionDeclarations.v, 1)
        ELSE <<>>)
         \o ConvertToolsFrom(tools, i + 1)

convertToolsToClaudeFormat(tools) == ConvertToolsFrom(tools, 1)

\* Mutant: ?? in place of ||, a limit of 0 is kept.
MaxTokensOfNullish(request) ==
  IF ConfigField(request, "maxOutputTokens").t = "undefined"
  THEN Num(DefaultMaxTokens)
  ELSE ConfigField(request, "maxOutputTokens")

\* request.config?.maxOutputTokens || 4096
MaxTokensOf(request) ==
  OrElse(ConfigField(request, "maxOutputTokens"), Num(DefaultMaxTokens))

\* An object with the one key k, and the object with no key.
Field(k, v) == k :> v
NoField == [k \in {} |-> Undefined]

\* convertToClaudeFormat(request): the object claudeRequest, as a function
\* from its keys to their values.
convertToClaudeFormat(request, clock) ==
  LET systemPrompt == SystemPrompt(request)
      messages == ConvertContentsFrom(ContentsList(request.contents), 1, clock, 0)
      temperature == ConfigField(request, "temperature")
      topP == ConfigField(request, "topP")
      tools == ConfigField(request, "tools")
  IN  Field("messages", messages) @@ Field("max_tokens", MaxTokensOf(request))
        @@ (IF systemPrompt # <<>> THEN Field("system", Str(systemPrompt)) ELSE NoField)
        @@ (IF temperature.t # "undefined" THEN Field("temperature", temperature) ELSE NoField)
        @@ (IF topP.t # "undefined" THEN Field("top_p", topP) ELSE NoField)
        @@ (IF Truthy(tools) /\ Len(tools.v) > 0
            THEN Field("tools", Arr(convertToolsToClaudeFormat(tools.v)))
            ELSE NoField)

\* { ...claudeRequest, model: request.model }
GenerateContentArg(request, clock) ==
  Field("model", request.model) @@ convertToClaudeFormat(request, clock)

\* { ...claudeRequest, model: request.model, stream: true }
GenerateContentStreamArg(request, clock) ==
  Field("model", request.model) @@ Field("stream", TRUE)
    @@ convertToClaudeFormat(request, clock)

\* ------------------------------------------ ClaudeAdapter: response
FinishSTOP == "STOP"
FinishMAX_TOKENS == "MAX_TOKENS"

\* Mutant: a tool_use stop is reported as MAX_TOKENS.
mapFinishReasonToolUse(claudeStopReason) ==
  CASE claudeStopReason = Str("end_turn") -> FinishSTOP
    [] claudeStopReason = Str("max_tokens") -> FinishMAX_TOKENS
    [] claudeStopReason = Str("tool_use") -> FinishMAX_TOKENS
    [] OTHER -> FinishSTOP

mapFinishReason(claudeStopReason) ==
  CASE claudeStopReason = Str("end_turn") -> FinishSTOP
    [] claudeStopReason = Str("max_tokens") -> FinishMAX_TOKENS
    [] claudeStopReason = Str("tool_use") -> FinishSTOP
    [] OTHER -> FinishSTOP

\* Mutant: a block of another type is pushed as a part without content.
ConvertBlockKeepingAll(block) ==
  IF block.type = "text"
  THEN <<[text |-> Get(block, "text")]>>
  ELSE IF block.type = "tool_use"
  THEN <<[functionCall |-> [name |-> Get(block, "name"), args |-> Get(block, "input")]]>>
  ELSE <<[text |-> Undefined]>>

\* The loop body of convertToGeminiFormat for one block: the parts it pushes.
ConvertBlock(block) ==
  IF block.type = "text"
  THEN <<[text |-> Get(block, "text")]>>
  ELSE IF block.type = "tool_use"
  THEN <<[functionCall |-> [name |-> Get(block, "name"), args |-> Get(block, "input")]]>>
  ELSE <<>>

RECURSIVE ConvertBlocksFrom(_, _)
ConvertBlocksFrom(blocks, i) ==
  IF i > Len(blocks) THEN <<>>
  ELSE ConvertBlock(blocks[i]) \o ConvertBlocksFrom(blocks, i + 1)

IsTextPart(p) == "text" \in DOMAIN p
IsFunctionCallPart(p) == "functionCall" \in DOMAIN p

\* parts.find(p => 'text' in p)?.text || ''
RECURSIVE FirstTextFrom(_, _)
FirstTextFrom(parts, i) ==
  IF i > Len(parts) THEN Str(<<>>)
  ELSE IF IsTextPart(parts[i]) THEN OrElse(parts[i].text, Str(<<>>))
  ELSE FirstTextFrom(parts, i + 1)

\* parts.filter(p => 'functionCall' in p).map(p => p.functionCall)
RECURSIVE FunctionCallsFrom(_, _)
FunctionCallsFrom(parts, i) ==
  IF i > Len(parts) THEN <<>>
  ELSE (IF IsFunctionCallPart(parts[i]) THEN <<parts[i].functionCall>> ELSE <<>>)
         \o FunctionCallsFrom(parts, i + 1)

convertToGeminiFormat(claudeResponse) ==
  LET parts == IF Truthy(claudeResponse.content)
               THEN ConvertBlocksFrom(claudeResponse.content.v, 1)
               ELSE <<>>
  IN  [candidates |-> <<[content |-> [parts |-> parts, role |-> "model"],
                         finishReason |-> mapFinishReason(claudeResponse.stop_reason),
                         index |-> 0,
                         safetyRatings |-> <<>>]>>,
       promptFeedback |-> [safetyRatings |-> <<>>],
       text |-> FirstTextFrom(parts, 1),
       functionCalls |-> FunctionCallsFrom(parts, 1)]

convertStreamChunkToGemini(chunk) ==
  [candidates |-> <<[content |-> [parts |-> <<[text |-> Get(chunk.delta, "text")]>>, role |-> "model"],
                     finishReason |-> FinishSTOP,
                     index |-> 0,
                     safetyRatings |-> <<>>]>>,
   promptFeedback |-> [safetyRatings |-> <<>>],
   text |-> Get(chunk.delta, "text"),
   functionCalls |-> <<>>]

\* Mutant: the delta's type is not looked at.
IsContentBlockDelta(chunk) == chunk.type = "content_block_delta"

\* chunk.type === 'content_block_delta' && chunk.delta.type === 'text_delta'
IsTextDelta(chunk) == chunk.type = "content_block_delta" /\ chunk.delta.type = "text_delta"

\* The body of the for await loop for one chunk: what it yields.
StreamYield(chunk) ==
  IF IsTextDelta(chunk) THEN <<convertStreamChunkToGemini(chunk)>> ELSE <<>>


\* extractTextFromContents(contents)
RECURSIVE ExtractPartsText(_, _)
ExtractPartsText(parts, i) ==
  IF i > Len(parts) THEN <<>>
  ELSE (IF Truthy(parts[i].text) THEN parts[i].text.v \o <<" ">> ELSE <<>>)
         \o ExtractPartsText(parts, i + 1)

RECURSIVE ExtractContentsText(_, _)
ExtractContentsText(contents, i) ==
  IF i > Len(contents) THEN <<>>
  ELSE ExtractPartsText(PartsOf(contents[i]), 1) \o ExtractContentsText(contents, i + 1)

extractTextFromContents(contents) == Trim(ExtractContentsText(contents, 1))

\* Mutant: Math.floor in place of Math.ceil.
FloorQuarter(n) == n \div 4

\* Math.ceil(n / 4)
CeilQuarter(n) == (n + 3) \div 4

\* ------------------------------------------------ promise outcomes
None == [kind |-> "none"]
Pending == [kind |-> "pending"]
Resolved(v) == [kind |-> "resolved", value |-> v]
Rejected(e) == [kind |-> "rejected", error |-> e]
\* The AsyncGenerator object a call of an async generator function returns.
StreamObject == [kind |-> "resolved", value |-> [t |-> "AsyncGenerator"]]

\* What the vendor's client.messages.create does with one call.
VendorResolve(v) == [kind |-> "resolve", value |-> v]
VendorReject(e) == [kind |-> "reject", error |-> e]

\* ------------------------------------- ClaudeAdapter: the methods
\* Each gives the calls of client.messages.create it makes and the
\* outcome of the promise it returns.
\* Mutant: a failed vendor call is made once more.
AdapterGenerateContentRetry(request, clock, vendor) ==
  [vendorCalls |-> IF vendor.kind = "resolve"
                   THEN <<GenerateContentArg(request, clock)>>
                   ELSE <<GenerateContentArg(request, clock), GenerateContentArg(request, clock)>>,
   outcome |-> IF vendor.kind = "resolve"
               THEN Resolved(convertToGeminiFormat(vendor.value))
               ELSE Rejected(vendor.error)]

AdapterGenerateContent(request, clock, vendor) ==
  [vendorCalls |-> <<GenerateContentArg(request, clock)>>,
   outcome |-> IF vendor.kind = "resolve"
               THEN Resolved(convertToGeminiFormat(vendor.value))
               ELSE Rejected(vendor.error)]

AdapterCountTokens(request) ==
  [vendorCalls |-> <<>>,
   outcome |-> Resolved([totalTokens |->
       CeilQuarter(Len(extractTextFromContents(ContentsList(request.contents))))])]

AdapterEmbedError ==
  NewError(<<EmbedErrorCore, ". Use Gemini embedding models instead.">>)

\* Mutant: the adapter tries the vendor before it gives up.
AdapterEmbedContentViaVendor(request) ==
  [vendorCalls |-> <<Field("model", request.model)>>,
   outcome |-> Rejected(AdapterEmbedError)]

AdapterEmbedContent(request) ==
  [vendorCalls |-> <<>>, outcome |-> Rejected(AdapterEmbedError)]

\* The catch of generateContentStream: what the consumer's next() rejects with.
StreamingError(error) == NewError(<<"Claude streaming error: ">> \o MessageOf(error))

\* ------------------------------ ClaudeContentGenerator: the methods
\* Each gives the adapter calls it makes (method and argument list), the
\* vendor calls those make, the adapter's outcome and its own outcome.
ApiError(error) == NewError(<<"Claude API error: ">> \o MessageOf(error))
TokenCountingError(error) == NewError(<<"Claude token counting error: ">> \o MessageOf(error))
StreamingApiError(error) == NewError(<<"Claude streaming API error: ">> \o MessageOf(error))

AdapterCall(method, args) == [method |-> method, args |-> args]

\* Mutant: the prompt id is handed on too.
ForwardedArgsWithPromptId(request, userPromptId) == <<request, userPromptId>>

\* The arguments the generator hands to the adapter method.
ForwardedArgs(request, userPromptId) == <<request>>

GeneratorGenerateContent(request, userPromptId, clock, vendor) ==
  LET a == AdapterGenerateContent(request, clock, vendor)
  IN  [adapterCalls |-> <<AdapterCall("generateContent", ForwardedArgs(request, userPromptId))>>,
       vendorCalls |-> a.vendorCalls,
       adapterOutcome |-> a.outcome,
       \* try { return await ... } catch (error) { throw new Error(...) }
       outcome |-> IF a.outcome.kind = "rejected"
                   THEN Rejected(ApiError(a.outcome.error))
                   ELSE a.outcome]

GeneratorCountTokens(request) ==
  LET a == AdapterCountTokens(request)
  IN  [adapterCalls |-> <<AdapterCall("countTokens", <<request>>)>>,
       vendorCalls |-> a.vendorCalls,
       adapterOutcome |-> a.outcome,
       outcome |-> IF a.outcome.kind = "rejected"
                   THEN Rejected(TokenCountingError(a.outcome.error))
                   ELSE a.outcome]

GeneratorEmbedError ==
  NewError(<<EmbedErrorCore, ". Please use Gemini embedding models instead.">>)

\* The generator throws by itself: the adapter is not called.
GeneratorEmbedContent(request) ==
  [adapterCalls |-> <<>>,
   vendorCalls |-> <<>>,
   adapterOutcome |-> None,
   outcome |-> Rejected(GeneratorEmbedError)]

\* return this.adapter.generateContentStream(request): the call of the
\* async generator function runs none of its body and cannot throw, so the
\* generator's catch is never entered and the object is returned as it is.
GeneratorGenerateContentStream(request, userPromptId) ==
  [adapterCalls |-> <<AdapterCall("generateContentStream", ForwardedArgs(request, userPromptId))>>,
   vendorCalls |-> <<>>,
   adapterOutcome |-> StreamObject,
   outcome |-> StreamObject]

\* Mutant: the generator's catch also wraps what the stream rejects with.
StreamRejectionWrapped(target, error) ==
  IF target = "generator" THEN StreamingApiError(error) ELSE error

\* What the caller's next() rejects with when the stream's body throws
\* error: the caller holds the adapter's object, so the error itself.
StreamRejection(target, error) == error

\* What the caller receives when the adapter's stream yields chunks: the
\* object the generator returned is the adapter's own, so the same chunks.
StreamDelivery(target, chunks) == chunks

\* ---------------------------------------- ClaudeContentGenerator()
\* process.env['CLOUD_ML_REGION'] || 'us-central1'
DefaultRegion == Str(<<"us-central1">>)
\* Mutant: ?? in place of ||, an empty region is kept.
RegionOfNullish(e) ==
  IF e.CLOUD_ML_REGION.t = "undefined" THEN DefaultRegion ELSE e.CLOUD_ML_REGION

RegionOf(e) == OrElse(e.CLOUD_ML_REGION, DefaultRegion)

CtorError ==
  NewError(<<"ANTHROPIC_VERTEX_PROJECT_ID environment variable is required",
             " for Claude models">>)

\* The constructor: it throws, or builds the adapter from its config.
Construct(e) ==
  IF ~Truthy(e.ANTHROPIC_VERTEX_PROJECT_ID)
  THEN [threw |-> TRUE, error |-> CtorError, adapter |-> Undefined]
  ELSE [threw |-> FALSE, error |-> None,
        adapter |-> [t |-> "ClaudeAdapter", region |-> RegionOf(e),
                     projectId |-> e.ANTHROPIC_VERTEX_PROJECT_ID]]


\* ------------------------------------------------------ input sets
Chars == {"a", " "}
Texts == SeqsUpTo(Chars, MaxTextLen)

TextPart(text) == [text |-> Str(text), functionCall |-> Undefined, functionResponse |-> Undefined]
CallPart(name, args) ==
  [text |-> Undefined, functionCall |-> [t |-> "object", name |-> name, args |-> args],
   functionResponse |-> Undefined]
ResponsePart(response) ==
  [text |-> Undefined, functionCall |-> Undefined,
   functionResponse |-> [t |-> "object", response |-> response]]
\* A functionResponse part as the host builds it, with the function's name.
AnswerPart(name, response) ==
  [text |-> Undefined, functionCall |-> Undefined,
   functionResponse |-> [t |-> "object", name |-> name, response |-> response]]
Content(role, parts) == [role |-> role, parts |-> Arr(parts)]
\* The role of a content that has no role property.
NoRole == "(no role)"
Config(si, mot, temp, topP, tools) ==
  [t |-> "object", systemInstruction |-> si, maxOutputTokens |-> mot,
   temperature |-> temp, topP |-> topP, tools |-> tools]
Request(model, contents, config) == [model |-> model, contents |-> contents, config |-> config]

Decl(name, parameters) ==
  [name |-> name, description |-> Str(<<"Get weather information">>), parameters |-> parameters]
Tool(decls) == [functionDeclarations |-> decls]

\* The requests of the operational specification: the ones of the tests
\* and one whose contents is not a list.
Hello == <<"H", "e", "l", "l", "o">>
SampleRequests ==
  { Request("claude-3-7-sonnet", Arr(<<Content("user", <<TextPart(Hello)>>)>>), Undefined),
    Request("claude-3-5-sonnet-v2@20241022",
            Arr(<<Content("user", <<TextPart(Hello)>>),
                  Content("model", <<CallPart("get_weather", Obj("location"))>>)>>),
            Config(Str(<<"You are a helpful assistant.">>), Num(1000), Num(7), Undefined,
                   Arr(<<Tool(Arr(<<Decl("get_weather", Obj("schema"))>>))>>))),
    Request("claude-3-7-sonnet", Str(Hello), Undefined) }

EmbedRequests ==
  { [model |-> "text-embedding-ada-002", contents |-> Str(<<"test text">>)],
    [model |-> "text-embedding-ada-002", contents |-> Arr(<<Str(<<"test text">>)>>)] }

UserPromptIds == {"test-prompt-id"}
Targets == {"generator", "adapter"}
SampleClocks == {[t0 |-> 1000, tickAt |-> 1]}

TextBlock(text) == [type |-> "text", text |-> Str(text)]
ToolUseBlock(name, input) == [type |-> "tool_use", id |-> Str(<<"tool_123">>), name |-> name, input |-> input]
ThinkingBlock == [type |-> "thinking", thinking |-> Str(<<"hm">>)]
ClaudeResponse(content, stop) == [content |-> content, stop_reason |-> stop]

SampleResponses ==
  { ClaudeResponse(Arr(<<TextBlock(Hello)>>), Str("end_turn")),
    ClaudeResponse(Arr(<<ToolUseBlock("get_weather", Obj("location"))>>), Str("tool_use")) }

VendorErrors == { NewError(<<"Overloaded">>), Thrown(<<"ECONNRESET">>) }

VendorOutcomes ==
  {VendorResolve(r) : r \in SampleResponses} \cup {VendorReject(e) : e \in VendorErrors}

TextDelta(text) ==
  [type |-> "content_block_delta", delta |-> [type |-> "text_delta", text |-> Str(text)]]
StreamEvents ==
  { TextDelta(<<"H", "e">>), TextDelta(<<"y">>),
    [type |-> "content_block_delta",
     delta |-> [type |-> "input_json_delta", partial_json |-> Str(<<"{">>)]],
    [type |-> "message_stop", delta |-> Undefined] }

EnvValues == {Undefined, Str(<<>>), Str(<<"set">>)}
Envs == [ANTHROPIC_VERTEX_PROJECT_ID : EnvValues, CLOUD_ML_REGION : EnvValues]

\* ------------------------------------------------------------ state
VARIABLES
  env,           \* process.env, the two variables the constructor reads
  phase,         \* "new", "ctor_failed" or "ready"
  adapter,       \* the generator's adapter field, Undefined before it is set
  ctorError,     \* what the constructor threw, None otherwise
  call,          \* the invocation in progress or last made
  adapterCalls,  \* the adapter methods that invocation called
  adapterResult, \* the outcome of the adapter method
  vendorCalls,   \* the arguments of its client.messages.create calls
  vendorError,   \* what the vendor failed with in it, None otherwise
  vendorResponse,\* what the vendor's messages.create resolved with, None otherwise
  result,        \* the outcome the caller observes
  stream,        \* the stream of the invocation: "none", "open", "reading",
                 \* "suspended", "ended", "failed" or "returned"
  vendorStream,  \* the vendor's stream: "none", "open", "ended", "failed", "closed"
  events,        \* the vendor events the stream has read so far
  yielded,       \* the responses the adapter's stream has yielded
  received,      \* the responses the caller has received from its stream
  streamError,   \* what the caller's next() rejected with, None otherwise
  earlier,       \* the vendor argument and the result of the same call made
                 \* before, None when the call was made once
  auth           \* the run of validateNonInteractiveAuth, None outside one

vars == <<env, phase, adapter, ctorError, call, adapterCalls, adapterResult,
          vendorCalls, vendorError, vendorResponse, result, stream, vendorStream, events, yielded,
          received, streamError, earlier, auth>>

NoCall == [target |-> "none", method |-> "none"]

StreamBusy == stream \in {"open", "reading", "suspended"}
CanInvoke == phase = "ready" /\ ~StreamBusy

Init ==
  /\ env \in Envs
  /\ phase = "new"
  /\ adapter = Undefined
  /\ ctorError = None
  /\ call = NoCall
  /\ adapterCalls = <<>>
  /\ adapterResult = None
  /\ vendorCalls = <<>>
  /\ vendorError = None
  /\ vendorResponse = None
  /\ result = None
  /\ stream = "none"
  /\ vendorStream = "none"
  /\ events = <<>>
  /\ yielded = <<>>
  /\ received = <<>>
  /\ streamError = None
  /\ earlier = None
  /\ auth = None

\* new ClaudeContentGenerator(config)
NewGenerator ==
  /\ phase = "new"
  /\ LET c == Construct(env)
     IN  /\ phase' = IF c.threw THEN "ctor_failed" ELSE "ready"
         /\ ctorError' = c.error
         /\ adapter' = c.adapter
  /\ UNCHANGED <<env, earlier, auth, call, adapterCalls, adapterResult, vendorCalls, vendorError,
                 vendorResponse, result, stream, vendorStream, events, yielded, received, streamError>>

\* One finished call of a method: r is what the generator method gives;
\* a call made on the adapter itself observes the adapter's outcome.
Settle(target, method, request, r, vendor) ==
  /\ call' = [target |-> target, method |-> method, request |-> request]
  /\ adapterCalls' = IF target = "generator" THEN r.adapterCalls ELSE <<>>
  /\ adapterResult' = r.adapterOutcome
  /\ vendorCalls' = r.vendorCalls
  /\ vendorError' = IF vendor.kind = "reject" /\ r.vendorCalls # <<>> THEN vendor.error ELSE None
  /\ vendorResponse' = IF vendor.kind = "resolve" /\ r.vendorCalls # <<>> THEN vendor.value ELSE None
  /\ result' = IF target = "generator" THEN r.outcome ELSE r.adapterOutcome
  /\ stream' = "none"
  /\ vendorStream' = "none"
  /\ events' = <<>>
  /\ yielded' = <<>>
  /\ received' = <<>>
  /\ streamError' = None
  /\ UNCHANGED <<env, auth, phase, adapter, ctorError>>

\* A call that is made for the first time.
Finish(target, method, request, r, vendor) ==
  /\ Settle(target, method, request, r, vendor)
  /\ UNCHANGED earlier

GenerateContent ==
  /\ CanInvoke
  /\ \E target \in Targets, request \in SampleRequests, id \in UserPromptIds,
        clock \in SampleClocks, vendor \in VendorOutcomes :
       Finish(target, "generateContent", request,
              GeneratorGenerateContent(request, id, clock, vendor), vendor)

CountTokens ==
  /\ CanInvoke
  /\ \E target \in Targets, request \in SampleRequests :
       Finish(target, "countTokens", request, GeneratorCountTokens(request), None)

\* ClaudeContentGenerator.embedContent(request)
EmbedContent ==
  /\ CanInvoke
  /\ \E request \in EmbedRequests :
       Finish("generator", "embedContent", request, GeneratorEmbedContent(request), None)

\* ClaudeAdapter.embedContent(request), called on the adapter itself
AdapterEmbed ==
  /\ CanInvoke
  /\ \E request \in EmbedRequests :
       LET a == AdapterEmbedContent(request)
       IN  Finish("adapter", "embedContent", request,
                  [adapterCalls |-> <<>>, vendorCalls |-> a.vendorCalls,
                   adapterOutcome |-> a.outcome, outcome |-> a.outcome], None)


\* generateContentStream(request): the AsyncGenerator is returned; none of
\* its body has run yet.
GenerateContentStream ==
  /\ CanInvoke
  /\ \E target \in Targets, request \in SampleRequests, id \in UserPromptIds :
       LET r == GeneratorGenerateContentStream(request, id)
       IN  /\ call' = [target |-> target, method |-> "generateContentStream",
                       request |-> request]
           /\ adapterCalls' = IF target = "generator" THEN r.adapterCalls ELSE <<>>
           /\ adapterResult' = r.adapterOutcome
           /\ vendorCalls' = r.vendorCalls
           /\ result' = IF target = "generator" THEN r.outcome ELSE r.adapterOutcome
  /\ vendorError' = None
  /\ vendorResponse' = None
  /\ stream' = "open"
  /\ vendorStream' = "none"
  /\ events' = <<>>
  /\ yielded' = <<>>
  /\ received' = <<>>
  /\ streamError' = None
  /\ UNCHANGED <<env, earlier, auth, phase, adapter, ctorError>>

\* The consumer's first next(): the body runs up to the vendor call, which
\* gives the vendor's stream or fails.
StreamStart ==
  /\ stream = "open"
  /\ \E clock \in SampleClocks :
       vendorCalls' = Append(vendorCalls, GenerateContentStreamArg(call.request, clock))
  /\ \/ /\ stream' = "reading"
        /\ vendorStream' = "open"
        /\ UNCHANGED <<vendorError, streamError>>
     \/ \E error \in VendorErrors :
          /\ vendorError' = error
          /\ streamError' = StreamRejection(call.target, StreamingError(error))
          /\ stream' = "failed"
          /\ vendorStream' = "none"
  /\ UNCHANGED <<env, earlier, auth, phase, adapter, ctorError, call, adapterCalls, adapterResult,
                 vendorResponse, result, events, yielded, received>>

\* One turn of the for await loop: the vendor's stream gives a chunk, ends
\* or fails.  A chunk that is yielded suspends the generator.
StreamRead ==
  /\ stream = "reading"
  /\ \/ \E chunk \in StreamEvents :
          /\ Len(events) < MaxEvents
          /\ events' = Append(events, chunk)
          /\ yielded' = yielded \o StreamYield(chunk)
          /\ received' = received \o StreamDelivery(call.target, StreamYield(chunk))
          /\ stream' = IF StreamYield(chunk) # <<>> THEN "suspended" ELSE "reading"
          /\ UNCHANGED <<vendorStream, vendorError, streamError>>
     \/ /\ vendorStream' = "ended"
        /\ stream' = "ended"
        /\ UNCHANGED <<events, yielded, received, vendorError, streamError>>
     \/ \E error \in VendorErrors :
          /\ vendorStream' = "failed"
          /\ vendorError' = error
          /\ streamError' = StreamRejection(call.target, StreamingError(error))
          /\ stream' = "failed"
          /\ UNCHANGED <<events, yielded, received>>
  /\ UNCHANGED <<env, earlier, auth, phase, adapter, ctorError, call, adapterCalls, adapterResult,
                 vendorCalls, vendorResponse, result>>

\* The consumer's next() after a yield: the loop goes on.
StreamResume ==
  /\ stream = "suspended"
  /\ stream' = "reading"
  /\ UNCHANGED <<env, earlier, auth, phase, adapter, ctorError, call, adapterCalls, adapterResult,
                 vendorCalls, vendorError, vendorResponse, result, vendorStream, events,
                 yielded, received, streamError>>

\* The consumer's return() (a break out of its loop): a generator that has
\* not started just finishes; one suspended in the loop closes the vendor's
\* stream.
StreamReturn ==
  /\ stream \in {"open", "suspended"}
  /\ stream' = "returned"
  /\ vendorStream' = IF stream = "suspended" THEN "closed" ELSE vendorStream
  /\ UNCHANGED <<env, earlier, auth, phase, adapter, ctorError, call, adapterCalls, adapterResult,
                 vendorCalls, vendorError, vendorResponse, result, events, yielded,
                 received, streamError>>

Next ==
  \/ NewGenerator
  \/ GenerateContent
  \/ CountTokens
  \/ EmbedContent
  \/ AdapterEmbed
  \/ GenerateContentStream
  \/ StreamStart
  \/ StreamRead
  \/ StreamResume
  \/ StreamReturn

Spec == Init /\ [][Next]_vars


\* ================================================================ claims
\* A text of message segments contains the segment seg.
HasSegment(message, seg) == \E i \in 1..Len(message) : message[i] = seg

\* C1: embedContent, of the adapter and of the generator, rejects every
\* request with an error whose message contains 'Embedding not supported for
\* Claude models', and makes no vendor call.
C1_EmbeddingUnsupported ==
  call.method = "embedContent" =>
    /\ result.kind = "rejected"
    /\ result.error.kind = "Error"
    /\ HasSegment(result.error.message, "Embedding not supported for Claude models")
    /\ vendorCalls = <<>>

C1_Witness ==
  /\ call.method = "embedContent"
  /\ call.target = "adapter"
  /\ result.kind = "rejected"

\* C2: the generator's embedContent delegates: it calls adapter.embedContent
\* with its request and settles as the adapter does.
C2_EmbedDelegates ==
  (call.target = "generator" /\ call.method = "embedContent") =>
    /\ adapterCalls = <<AdapterCall("embedContent", <<call.request>>)>>
    /\ result = adapterResult

\* C3: the generator's generateContent, generateContentStream and countTokens
\* call the adapter method of the same name exactly once, with the request
\* alone, and return what the adapter returns; the caller of a stream receives
\* the adapter's chunks, in the adapter's order.
C3_Delegation ==
  (call.target = "generator"
     /\ call.method \in {"generateContent", "generateContentStream", "countTokens"}) =>
    /\ adapterCalls = <<[method |-> call.method, args |-> <<call.request>>]>>
    /\ adapterResult.kind = "resolved" => result = adapterResult
    /\ received = yielded

C3_Witness ==
  /\ call.target = "generator"
  /\ call.method = "generateContentStream"
  /\ stream = "ended"
  /\ Len(received) >= 2

\* The text-delta events among the vendor events, in their order.
C4_TextDeltas(evs) ==
  SelectSeq(evs, LAMBDA e : e.type = "content_block_delta" /\ e.delta.type = "text_delta")

\* C4: the adapter's stream passes the vendor's stream through: the i-th
\* response yielded carries the text of the i-th text-delta event and is
\* yielded before a later event is read (after every read, the responses
\* yielded are those of all text deltas read, and the generator is suspended
\* at a text delta), and the stream ends when the vendor's stream ends.
C4_PassThrough ==
  call.method = "generateContentStream" =>
    /\ Len(yielded) = Len(C4_TextDeltas(events))
    /\ \A i \in 1..Len(yielded) :
         /\ yielded[i].candidates[1].content.parts
              = <<[text |-> C4_TextDeltas(events)[i].delta.text]>>
         /\ yielded[i].text = C4_TextDeltas(events)[i].delta.text
    /\ stream = "suspended" =>
         /\ events # <<>>
         /\ C4_TextDeltas(<<events[Len(events)]>>) # <<>>
    /\ (stream = "ended") <=> (vendorStream = "ended")

C4_Witness ==
  /\ call.method = "generateContentStream"
  /\ stream = "ended"
  /\ Len(events) = 3
  /\ Len(yielded) = 2
  /\ C4_TextDeltas(<<events[2]>>) = <<>>

ErrorPrefixes ==
  {"Claude API error: ", "Claude streaming error: ", "Claude streaming API error: ",
   "Claude token counting error: "}

\* C5: when the vendor call fails, in generateContent or in a stream (on
\* creation or during iteration), the caller of the generator observes an
\* error whose message is the vendor's message after exactly one prefix.
C5_Observed ==
  IF call.method = "generateContentStream" THEN streamError
  ELSE IF result.kind = "rejected" THEN result.error
  ELSE None

C5_OnePrefix ==
  (call.target = "generator" /\ vendorError # None) =>
    /\ C5_Observed.kind = "Error"
    /\ \E p \in ErrorPrefixes : C5_Observed.message = <<p>> \o MessageOf(vendorError)

C5_Witness ==
  /\ call.target = "generator"
  /\ call.method = "generateContentStream"
  /\ stream = "failed"
  /\ events # <<>>
  /\ vendorError # None

\* C6: generateContent and a consumed stream call messages.create exactly
\* once, whether it succeeds or fails; countTokens and embedContent never.
C6_SingleVendorCall ==
  /\ call.method = "generateContent" => Len(vendorCalls) = 1
  /\ (call.method = "generateContentStream"
        /\ stream \in {"reading", "suspended", "ended", "failed"}) => Len(vendorCalls) = 1
  /\ call.method = "generateContentStream" => Len(vendorCalls) <= 1
  /\ call.method \in {"countTokens", "embedContent"} => Len(vendorCalls) = 0

C6_Witness ==
  /\ call.method = "generateContent"
  /\ vendorError # None
  /\ Len(vendorCalls) = 1

C7_Unset(v) == v = Undefined \/ v = Str(<<>>)

\* C7: the constructor throws 'ANTHROPIC_VERTEX_PROJECT_ID environment
\* variable is required' exactly when that variable is unset or empty, and
\* then creates no adapter; otherwise the adapter gets that project id, and
\* the region CLOUD_ML_REGION, or 'us-central1' when that is unset or empty.
C7_Constructor ==
  phase # "new" =>
    /\ (phase = "ctor_failed") <=> C7_Unset(env.ANTHROPIC_VERTEX_PROJECT_ID)
    /\ phase = "ctor_failed" =>
         /\ ctorError.kind = "Error"
         /\ HasSegment(ctorError.message,
                       "ANTHROPIC_VERTEX_PROJECT_ID environment variable is required")
         /\ adapter = Undefined
    /\ phase = "ready" =>
         /\ ctorError = None
         /\ adapter.t = "ClaudeAdapter"
         /\ adapter.projectId = env.ANTHROPIC_VERTEX_PROJECT_ID
         /\ adapter.region = IF C7_Unset(env.CLOUD_ML_REGION)
                             THEN Str(<<"us-central1">>)
                             ELSE env.CLOUD_ML_REGION

C7_Witness ==
  /\ phase = "ready"
  /\ env.CLOUD_ML_REGION = Str(<<>>)
  /\ adapter.region = Str(<<"us-central1">>)


\* ============================================ the conversions alone
\* The adapter's generateContent applied once to a request drawn by Init:
\* the request conversion is observed in the argument of the vendor call,
\* the response conversion in the result.

\* A system instruction given as Content ({parts}), and one given as a bare
\* Part, an object without a 'parts' key.
SystemContent(parts) == [t |-> "content", parts |-> parts]
SystemBarePart == [t |-> "part", text |-> Str(<<"a">>)]
SysPart(text) == [text |-> text]
SysParts == {SysPart(Str(t)) : t \in Texts} \cup {SysPart(Undefined)}

SystemInstructions ==
  {Undefined, SystemContent(Undefined), SystemBarePart}
    \cup {Str(t) : t \in Texts}
    \cup {SystemContent(Arr(ps)) : ps \in SeqsUpTo(SysParts, MaxSysParts)}

ConfigSystemInstructions ==
  {Undefined, Str(<<>>), Str(<<"a">>), SystemContent(Arr(<<>>)),
   SystemContent(Arr(<<SysPart(Str(<<"a">>)), SysPart(Str(<<"a">>))>>)),
   SystemContent(Arr(<<SysPart(Str(<<" ">>))>>)), SystemBarePart}

ConfigTools ==
  {Undefined, Arr(<<>>), Arr(<<Tool(Undefined)>>),
   Arr(<<Tool(Arr(<<Decl("get_weather", Undefined)>>)),
         Tool(Arr(<<Decl("get_time", Obj("schema")), Decl("get_date", Obj("schema"))>>))>>)}

Configs ==
  {Undefined}
    \cup {Config(si, mot, temp, topP, tools) :
            si \in ConfigSystemInstructions,
            mot \in {Undefined, Num(0), Num(1000)},
            temp \in {Undefined, Num(0), Num(7)},
            topP \in {Undefined, Num(9)},
            tools \in ConfigTools}

Models == {"claude-3-7-sonnet", "claude-opus-4@20250514"}

SampleContents == {r.contents : r \in SampleRequests}

\* Requests over every shape of config, and requests over every system
\* instruction of the bounds.
ConversionRequests ==
  {Request(m, c, cfg) : m \in Models, c \in SampleContents, cfg \in Configs}
    \cup {Request("claude-3-7-sonnet", Arr(<<Content("user", <<TextPart(Hello)>>)>>),
                  Config(si, Undefined, Undefined, Undefined, Undefined)) :
            si \in SystemInstructions}

TestAdapter ==
  [t |-> "ClaudeAdapter", region |-> Str(<<"us-central1">>),
   projectId |-> Str(<<"test-project">>)]
TestEnv ==
  [ANTHROPIC_VERTEX_PROJECT_ID |-> Str(<<"test-project">>),
   CLOUD_ML_REGION |-> Str(<<"us-central1">>)]

\* The state in which one call of calls is about to be made.
InitCall(calls) ==
  /\ env = TestEnv
  /\ phase = "ready"
  /\ adapter = TestAdapter
  /\ ctorError = None
  /\ call \in calls
  /\ adapterCalls = <<>>
  /\ adapterResult = None
  /\ vendorCalls = <<>>
  /\ vendorError = None
  /\ vendorResponse = None
  /\ result = Pending
  /\ stream = "none"
  /\ vendorStream = "none"
  /\ events = <<>>
  /\ yielded = <<>>
  /\ received = <<>>
  /\ streamError = None
  /\ earlier = None
  /\ auth = None

\* The pending call of generateContent is made; the vendor answers with one
\* of outcomes.
RunGenerateContent(outcomes) ==
  /\ result = Pending
  /\ call.method = "generateContent"
  /\ \E id \in UserPromptIds, clock \in SampleClocks, vendor \in outcomes :
       Finish(call.target, "generateContent", call.request,
              GeneratorGenerateContent(call.request, id, clock, vendor), vendor)

InitRequest ==
  InitCall({[target |-> "adapter", method |-> "generateContent", request |-> r] :
              r \in ConversionRequests})

ConvertRequest == RunGenerateContent(VendorOutcomes)

NextRequest == ConvertRequest

SpecRequest == InitRequest /\ [][NextRequest]_vars

\* Vendor responses over every list of blocks of the bounds.
Blocks ==
  { TextBlock(Hello), TextBlock(<<>>), ToolUseBlock("get_weather", Obj("location")),
    [type |-> "tool_use", name |-> "get_time"], ThinkingBlock }
StopReasons ==
  {Undefined, Str("end_turn"), Str("max_tokens"), Str("tool_use"), Str("stop_sequence")}
ClaudeResponses ==
  {ClaudeResponse(c, sr) :
     c \in {Undefined} \cup {Arr(bs) : bs \in SeqsUpTo(Blocks, MaxBlocks)},
     sr \in StopReasons}

InitResponse ==
  InitCall({[target |-> t, method |-> "generateContent", request |-> r] :
              t \in Targets, r \in SampleRequests})

ConvertResponse == RunGenerateContent({VendorResolve(r) : r \in ClaudeResponses})

NextResponse == ConvertResponse

SpecResponse == InitResponse /\ [][NextResponse]_vars


\* --------------------------------------------- claims on conversions
\* The request of the call, its config fields, and the argument of the
\* vendor call once the call is made.
Supplied(x) == x.t # "undefined"
C8_Config(f) == IF call.request.config.t = "undefined" THEN Undefined ELSE call.request.config[f]

\* A text without its leading and trailing spaces.
C9_Strip(s) ==
  LET solid == {i \in 1..Len(s) : s[i] # " "}
  IN  IF solid = {} THEN <<>>
      ELSE SubSeq(s, CHOOSE i \in solid : \A j \in solid : i <= j,
                     CHOOSE i \in solid : \A j \in solid : j <= i)

\* The texts ts joined by single spaces.
RECURSIVE C9_Join(_)
C9_Join(ts) ==
  IF ts = <<>> THEN <<>>
  ELSE IF Len(ts) = 1 THEN ts[1]
  ELSE ts[1] \o <<" ">> \o C9_Join(Tail(ts))

\* The texts of the parts that carry a text, in order.
C9_Texts(parts) ==
  LET carrying == SelectSeq(parts, LAMBDA q : q.text.t = "string" /\ q.text.v # <<>>)
  IN  [i \in 1..Len(carrying) |-> carrying[i].text.v]

\* The text a system instruction stands for: a string as it is, parts as
\* their texts joined by single spaces without leading or trailing space.
C9_SystemText(si) ==
  IF si.t = "string" THEN si.v
  ELSE IF si.t = "content" /\ si.parts.t = "array" THEN C9_Strip(C9_Join(C9_Texts(si.parts.v)))
  ELSE <<>>

\* The function declarations of all tools, in order, in the vendor's shape.
RECURSIVE C8_Declarations(_)
C8_Declarations(tools) ==
  IF tools = <<>> THEN <<>>
  ELSE (IF Head(tools).functionDeclarations.t = "array"
        THEN [i \in 1..Len(Head(tools).functionDeclarations.v) |->
                LET d == Head(tools).functionDeclarations.v[i]
                IN  [name |-> d.name, description |-> d.description,
                     input_schema |-> IF Supplied(d.parameters) THEN d.parameters
                                      ELSE Obj("{}")]]
        ELSE <<>>)
       \o C8_Declarations(Tail(tools))

\* The keys and values C8 gives the vendor argument arg, but for max_tokens.
C8_Fields(arg) ==
  LET si == C8_Config("systemInstruction")
      temp == C8_Config("temperature")
      topP == C8_Config("topP")
      tools == C8_Config("tools")
      hasSystem == C9_SystemText(si) # <<>>
      hasTools == tools.t = "array" /\ tools.v # <<>>
  IN  /\ DOMAIN arg = {"model", "messages", "max_tokens"}
                        \cup (IF hasSystem THEN {"system"} ELSE {})
                        \cup (IF Supplied(temp) THEN {"temperature"} ELSE {})
                        \cup (IF Supplied(topP) THEN {"top_p"} ELSE {})
                        \cup (IF hasTools THEN {"tools"} ELSE {})
      /\ arg["model"] = call.request.model
      /\ arg["messages"] =
           ConvertContentsFrom(ContentsList(call.request.contents), 1,
                               CHOOSE c \in SampleClocks : TRUE, 0)
      /\ hasSystem => arg["system"] = Str(C9_SystemText(si))
      /\ Supplied(temp) => arg["temperature"] = temp
      /\ Supplied(topP) => arg["top_p"] = topP
      /\ hasTools => arg["tools"] = Arr(C8_Declarations(tools.v))

\* C8 as claimed: ... max_tokens is config.maxOutputTokens when one is
\* supplied and 4096 otherwise.
C8_AsClaimed ==
  (call.method = "generateContent" /\ result # Pending) =>
    /\ Len(vendorCalls) = 1
    /\ C8_Fields(vendorCalls[1])
    /\ vendorCalls[1]["max_tokens"] =
         IF Supplied(C8_Config("maxOutputTokens"))
         THEN C8_Config("maxOutputTokens") ELSE Num(4096)

\* C8, amended: the object generateContent passes to the vendor call has
\* model = request.model, the converted messages, and max_tokens =
\* config.maxOutputTokens when one other than 0 is supplied and 4096
\* otherwise; it has temperature, top_p, system and tools exactly when the
\* request supplies a temperature, a topP, a non-empty system instruction
\* and a non-empty tool list, with the supplied values, and no other field.
C8_VendorArgument ==
  (call.method = "generateContent" /\ result # Pending) =>
    /\ Len(vendorCalls) = 1
    /\ C8_Fields(vendorCalls[1])
    /\ vendorCalls[1]["max_tokens"] =
         IF Supplied(C8_Config("maxOutputTokens")) /\ C8_Config("maxOutputTokens") # Num(0)
         THEN C8_Config("maxOutputTokens") ELSE Num(4096)

C8_Witness ==
  /\ call.method = "generateContent"
  /\ result # Pending
  /\ C8_Config("maxOutputTokens") = Num(0)
  /\ C8_Config("temperature") = Num(0)
  /\ DOMAIN vendorCalls[1]
       = {"model", "messages", "max_tokens", "system", "temperature", "top_p", "tools"}

\* C9: a system instruction reaches the vendor request as 'system': a string
\* unchanged, parts as the texts of the text parts in order joined by single
\* spaces with no leading or trailing space; 'system' is absent when the
\* instruction is missing or yields empty text.
C9_SystemField ==
  (call.method = "generateContent" /\ result # Pending) =>
    LET si == C8_Config("systemInstruction")
        arg == vendorCalls[1]
    IN  /\ si.t = "string" /\ si.v # <<>> => "system" \in DOMAIN arg /\ arg["system"] = si
        /\ (si.t = "content" /\ si.parts.t = "array") =>
             LET text == C9_Strip(C9_Join(C9_Texts(si.parts.v)))
             IN  IF text = <<>> THEN "system" \notin DOMAIN arg
                 ELSE /\ "system" \in DOMAIN arg
                      /\ arg["system"] = Str(text)
                      /\ Head(arg["system"].v) # " "
                      /\ arg["system"].v[Len(arg["system"].v)] # " "
        /\ (si.t = "undefined" \/ C9_SystemText(si) = <<>>) => "system" \notin DOMAIN arg

C9_Witness ==
  /\ call.method = "generateContent"
  /\ result # Pending
  /\ C8_Config("systemInstruction").t = "content"
  /\ C8_Config("systemInstruction").parts.t = "array"
  /\ Len(C8_Config("systemInstruction").parts.v) = 2
  /\ C8_Config("systemInstruction").parts.v[1].text = Str(<<" ", "a">>)
  /\ vendorCalls[1]["system"] = Str(<<"a", " ", "a">>)

\* The text and tool_use blocks of a vendor response, in order.
C10_Blocks(response) ==
  IF response.content.t = "array"
  THEN SelectSeq(response.content.v, LAMBDA b : b.type \in {"text", "tool_use"})
  ELSE <<>>

\* C10: for every vendor response, generateContent returns exactly one
\* candidate, with index 0 and role 'model', whose parts are, one for one and
\* in order, the response's text and tool_use blocks: {text} for a text
\* block, a functionCall with name = block.name and args = block.input for a
\* tool_use block; no part for another block, none without content.
C10_ResponseParts ==
  (call.method = "generateContent" /\ vendorResponse # None) =>
    /\ result.kind = "resolved"
    /\ Len(result.value.candidates) = 1
    /\ LET candidate == result.value.candidates[1]
           parts == candidate.content.parts
           blocks == C10_Blocks(vendorResponse)
       IN  /\ candidate.index = 0
           /\ candidate.content.role = "model"
           /\ Len(parts) = Len(blocks)
           /\ \A i \in 1..Len(blocks) :
                IF blocks[i].type = "text"
                THEN parts[i] = [text |-> blocks[i].text]
                ELSE parts[i] = [functionCall |->
                                   [name |-> blocks[i].name,
                                    args |-> IF "input" \in DOMAIN blocks[i]
                                             THEN blocks[i].input ELSE Undefined]]
           /\ vendorResponse.content.t = "undefined" => parts = <<>>

C10_Witness ==
  /\ call.method = "generateContent"
  /\ vendorResponse # None
  /\ vendorResponse.content.t = "array"
  /\ Len(vendorResponse.content.v) = 3
  /\ vendorResponse.content.v[1].type = "tool_use"
  /\ vendorResponse.content.v[2].type = "thinking"
  /\ vendorResponse.content.v[3].type = "text"
  /\ Len(result.value.candidates[1].content.parts) = 2


\* =============================================== countTokens alone
\* The adapter's countTokens applied once to a request drawn by Init.
FourAs == <<"a", "a", "a", "a">>
TokenTexts == {<<>>, <<" ">>, <<"a">>, <<" ", "a">>, FourAs, FourAs \o <<"a">>}
TokenParts == {TextPart(t) : t \in TokenTexts} \cup {CallPart("get_weather", Undefined)}
TokenContents ==
  {[role |-> "user", parts |-> Undefined]}
    \cup {Content("user", ps) : ps \in SeqsUpTo(TokenParts, MaxParts)}

CountTokensRequests ==
  {[model |-> "claude-3-7-sonnet", contents |-> c] :
     c \in {Str(FourAs)} \cup {Arr(cs) : cs \in SeqsUpTo(TokenContents, 2)}}

RunCountTokens ==
  /\ result = Pending
  /\ call.method = "countTokens"
  /\ Finish(call.target, "countTokens", call.request,
            GeneratorCountTokens(call.request), None)

InitTokens ==
  InitCall({[target |-> "adapter", method |-> "countTokens", request |-> r] :
              r \in CountTokensRequests})

NextTokens == RunCountTokens

SpecTokens == InitTokens /\ [][NextTokens]_vars

\* The texts of all parts of all contents of a request, in order.
RECURSIVE C11_PartTexts(_)
C11_PartTexts(contents) ==
  IF contents = <<>> THEN <<>>
  ELSE (IF Head(contents).parts.t = "array"
        THEN LET texted == SelectSeq(Head(contents).parts.v,
                                     LAMBDA q : q.text.t = "string")
             IN  [i \in 1..Len(texted) |-> texted[i].text.v]
        ELSE <<>>)
       \o C11_PartTexts(Tail(contents))

C11_RequestTexts ==
  IF call.request.contents.t = "array" THEN C11_PartTexts(call.request.contents.v) ELSE <<>>

C11_NonEmpty(ts) == SelectSeq(ts, LAMBDA t : t # <<>>)

\* The number of characters of the extracted text: the non-empty texts
\* joined by single spaces, without leading and trailing spaces.
C11_Length == Len(C9_Strip(C9_Join(C11_NonEmpty(C11_RequestTexts))))

\* C11 as claimed: totalTokens > 0 for every request whose contents list
\* holds a part with non-empty text.
C11_AsClaimed ==
  (call.method = "countTokens" /\ result # Pending) =>
    /\ result.kind = "resolved"
    /\ (\E i \in 1..Len(C11_RequestTexts) : C11_RequestTexts[i] # <<>>)
         => result.value.totalTokens > 0

\* C11, amended: countTokens returns totalTokens = ceil(L/4) over the L
\* characters of the extracted text, which is greater than 0 for every
\* request whose contents list holds a part whose text has a character
\* that is not white space.
C11_TotalTokens ==
  (call.method = "countTokens" /\ result # Pending) =>
    /\ result.kind = "resolved"
    /\ 4 * result.value.totalTokens >= C11_Length
    /\ 4 * (result.value.totalTokens - 1) < C11_Length
    /\ (\E i \in 1..Len(C11_RequestTexts) :
          \E j \in 1..Len(C11_RequestTexts[i]) : C11_RequestTexts[i][j] # " ")
         => result.value.totalTokens > 0

C11_Witness ==
  /\ call.method = "countTokens"
  /\ result # Pending
  /\ C11_Length = 5
  /\ result.value.totalTokens = 2


\* C14: the finish reason of a generateContent response is MAX_TOKENS
\* exactly when the vendor's stop_reason is 'max_tokens', and STOP for every
\* other stop_reason: 'end_turn', 'tool_use', an unknown string, none.
C14_FinishReason ==
  (call.method = "generateContent" /\ vendorResponse # None) =>
    /\ result.kind = "resolved"
    /\ \A i \in 1..Len(result.value.candidates) :
         LET reason == result.value.candidates[i].finishReason
         IN  /\ reason \in {"STOP", "MAX_TOKENS"}
             /\ reason = "MAX_TOKENS" <=>
                  (vendorResponse.stop_reason.t = "string"
                     /\ vendorResponse.stop_reason.v = "max_tokens")

C14_Witness ==
  /\ call.method = "generateContent"
  /\ vendorResponse # None
  /\ vendorResponse.stop_reason = Str("max_tokens")
  /\ result.kind = "resolved"
  /\ result.value.candidates[1].finishReason = "MAX_TOKENS"
  /\ Len(result.value.candidates[1].content.parts) > 0


\* ========================================== conversations converted
\* generateContent over conversations of contents of every role, with
\* function calls and their responses, converted while the clock runs,
\* and converted once more later.
WeatherCall == CallPart("get_weather", Obj("location"))
TimeCall == CallPart("get_time", Undefined)
WeatherAnswer == AnswerPart("get_weather", Obj("sunny"))
TimeAnswer == AnswerPart("get_time", Obj("noon"))

ConversationContents ==
  { Content("user", <<TextPart(<<"a">>)>>),
    Content("model", <<TextPart(<<"a", "a">>)>>),
    Content("system", <<TextPart(<<"a">>)>>),
    Content(NoRole, <<TextPart(<<"a">>)>>),
    [role |-> "user", parts |-> Undefined],
    Content("model", <<WeatherCall>>),
    Content("model", <<WeatherCall, TimeCall>>),
    Content("user", <<WeatherAnswer>>),
    Content("user", <<WeatherAnswer, TimeAnswer>>) }

ConversationRequests ==
  {Request("claude-3-7-sonnet", c, Undefined) :
     c \in {Str(Hello)} \cup {Arr(cs) : cs \in SeqsUpTo(ConversationContents, MaxContents)}}

\* The clock of a conversion: it starts at 1000 and ticks after tickAt parts
\* (with tickAt = 0 every reading is 1001).
Clocks == {[t0 |-> 1000, tickAt |-> k] : k \in 0..MaxContents}
\* The clock of a conversion made later, in the same millisecond or after it.
LaterClocks == {[t0 |-> t, tickAt |-> 0] : t \in {1000, 1001}}

ConversationAnswer == VendorResolve(ClaudeResponse(Arr(<<TextBlock(Hello)>>), Str("end_turn")))

InitContents ==
  InitCall({[target |-> "adapter", method |-> "generateContent", request |-> r] :
              r \in ConversationRequests})

ConvertContents ==
  /\ result = Pending
  /\ call.method = "generateContent"
  /\ \E id \in UserPromptIds, clock \in Clocks :
       Finish(call.target, "generateContent", call.request,
              GeneratorGenerateContent(call.request, id, clock, ConversationAnswer),
              ConversationAnswer)

\* The same request is given to generateContent once more and the vendor
\* resolves with the same response.
ConvertAgain ==
  /\ result \notin {None, Pending}
  /\ call.method = "generateContent"
  /\ vendorResponse # None
  /\ earlier = None
  /\ earlier' = [arg |-> vendorCalls[1], result |-> result]
  /\ \E id \in UserPromptIds, clock \in LaterClocks :
       Settle(call.target, "generateContent", call.request,
              GeneratorGenerateContent(call.request, id, clock, VendorResolve(vendorResponse)),
              VendorResolve(vendorResponse))

NextContents == ConvertContents \/ ConvertAgain

SpecContents == InitContents /\ [][NextContents]_vars

\* The contents of the request that have the role 'user' or 'model'.
C15_Kept ==
  IF call.request.contents.t = "array"
  THEN SelectSeq(call.request.contents.v, LAMBDA c : c.role \in {"user", "model"})
  ELSE <<>>

\* The type of the block a part is converted to.
C15_BlockType(part) ==
  IF part.text.t = "string" THEN "text"
  ELSE IF part.functionCall.t = "object" THEN "tool_use"
  ELSE "tool_result"

C15_BlockTypes(content) ==
  IF content.parts.t = "array"
  THEN [j \in 1..Len(content.parts.v) |-> C15_BlockType(content.parts.v[j])]
  ELSE <<>>

\* C15: the converted messages are, in the original order, one message per
\* content of role 'user' (role 'user') or 'model' (role 'assistant'), each
\* with the blocks of that content's parts; contents of another role or of
\* no role are dropped, and contents that are not a list give no message.
C15_Messages ==
  (call.method = "generateContent" /\ vendorCalls # <<>>) =>
    LET messages == vendorCalls[1]["messages"]
    IN  /\ Len(messages) = Len(C15_Kept)
        /\ \A i \in 1..Len(C15_Kept) :
             /\ messages[i].role = (IF C15_Kept[i].role = "user" THEN "user" ELSE "assistant")
             /\ [j \in 1..Len(messages[i].content) |-> messages[i].content[j].type]
                  = C15_BlockTypes(C15_Kept[i])
        /\ call.request.contents.t # "array" => messages = <<>>

C15_Witness ==
  /\ call.method = "generateContent"
  /\ vendorCalls # <<>>
  /\ call.request.contents.t = "array"
  /\ Len(call.request.contents.v) = 3
  /\ call.request.contents.v[1].role = "system"
  /\ call.request.contents.v[2].role = "model"
  /\ call.request.contents.v[3].role = "user"
  /\ Len(vendorCalls[1]["messages"]) = 2
  /\ vendorCalls[1]["messages"][1].role = "assistant"


\* The parts of the kept contents from the i-th on, each with the block it
\* was converted to and the index of its message.
RECURSIVE C17_PairsFrom(_, _, _)
C17_PairsFrom(kept, messages, i) ==
  IF i > Len(kept) THEN <<>>
  ELSE [j \in 1..Len(messages[i].content) |->
          [part |-> kept[i].parts.v[j], block |-> messages[i].content[j], message |-> i]]
         \o C17_PairsFrom(kept, messages, i + 1)

\* pairs[c] is the functionCall that the functionResponse of pairs[r]
\* answers: the last call of that function in an earlier message.
C17_Answers(pairs, r, c) ==
  /\ pairs[r].block.type = "tool_result"
  /\ pairs[c].block.type = "tool_use"
  /\ pairs[c].message < pairs[r].message
  /\ pairs[c].part.functionCall.name = pairs[r].part.functionResponse.name
  /\ \A d \in (c + 1)..(r - 1) :
       ~(/\ pairs[d].block.type = "tool_use"
         /\ pairs[d].message < pairs[r].message
         /\ pairs[d].part.functionCall.name = pairs[r].part.functionResponse.name)

\* C17: in every converted request each tool_result block carries the id of
\* the tool_use block made from the functionCall it answers, which is in an
\* earlier message, and distinct functionCall parts get distinct ids.
C17_ToolIds ==
  (call.method = "generateContent" /\ vendorCalls # <<>>) =>
    LET pairs == C17_PairsFrom(C15_Kept, vendorCalls[1]["messages"], 1)
    IN  /\ \A r \in 1..Len(pairs) : \A c \in 1..(r - 1) :
             C17_Answers(pairs, r, c) => pairs[r].block.tool_use_id = pairs[c].block.id
        /\ \A c \in 1..Len(pairs) : \A d \in 1..Len(pairs) :
             (/\ c # d
              /\ pairs[c].block.type = "tool_use"
              /\ pairs[d].block.type = "tool_use")
               => pairs[c].block.id # pairs[d].block.id

\* C12: converting the same request and the same response once more, at
\* another moment, gives an equal vendor argument and an equal result, and
\* leaves the request and the adapter as they were.
C12_Pure ==
  earlier # None =>
    /\ vendorCalls[1] = earlier.arg
    /\ result = earlier.result
    /\ adapter = TestAdapter
    /\ env = TestEnv


\* ============================================ validateNonInteractiveAuth
AuthType(name) == [t |-> "AuthType", v |-> name]
LOGIN_WITH_GOOGLE == AuthType("LOGIN_WITH_GOOGLE")
USE_GEMINI == AuthType("USE_GEMINI")
USE_VERTEX_AI == AuthType("USE_VERTEX_AI")
CLOUD_SHELL == AuthType("CLOUD_SHELL")
USE_CLAUDE == AuthType("USE_CLAUDE")

TrueText == <<"t", "r", "u", "e">>
ClaudeText == <<"c", "l", "a", "u", "d", "e">>

\* Mutant: GEMINI_API_KEY is looked at before ANTHROPIC_VERTEX_PROJECT_ID.
getAuthTypeFromEnvGeminiFirst(e) ==
  IF e.GOOGLE_GENAI_USE_GCA = Str(TrueText) THEN LOGIN_WITH_GOOGLE
  ELSE IF e.GOOGLE_GENAI_USE_VERTEXAI = Str(TrueText) THEN USE_VERTEX_AI
  ELSE IF Truthy(e.GEMINI_API_KEY) THEN USE_GEMINI
  ELSE IF Truthy(e.ANTHROPIC_VERTEX_PROJECT_ID) THEN USE_CLAUDE
  ELSE Undefined

getAuthTypeFromEnv(e) ==
  IF e.GOOGLE_GENAI_USE_GCA = Str(TrueText) THEN LOGIN_WITH_GOOGLE
  ELSE IF e.GOOGLE_GENAI_USE_VERTEXAI = Str(TrueText) THEN USE_VERTEX_AI
  ELSE IF Truthy(e.ANTHROPIC_VERTEX_PROJECT_ID) THEN USE_CLAUDE
  ELSE IF Truthy(e.GEMINI_API_KEY) THEN USE_GEMINI
  ELSE Undefined

\* String.prototype.includes(sub)
Includes(s, sub) ==
  \E i \in 0..(Len(s) - Len(sub)) : SubSeq(s, i + 1, i + Len(sub)) = sub

\* effectiveAuthType when the debug lines are reached.
EffectiveAuthType(configuredAuthType, currentModel, e) ==
  LET isClaudeModel == Includes(currentModel, ClaudeText)
      effectiveAuthType == OrElse(configuredAuthType, getAuthTypeFromEnv(e))
  IN  IF isClaudeModel /\ Truthy(e.ANTHROPIC_VERTEX_PROJECT_ID)
      THEN USE_CLAUDE
      ELSE effectiveAuthType

\* A call the function makes: console.error, process.exit,
\* validateAuthMethod or refreshAuth, with its argument and what it returned.
Event(op, arg, ret) == [op |-> op, arg |-> arg, ret |-> ret]

SetAuthMessage == Str(<<"Please set an Auth method">>)

\* Mutant: the auth method is never validated.
ValidationSkipped(useExternalAuth, effectiveAuthType, err) == <<>>

\* if (!useExternalAuth) { const err = validateAuthMethod(effectiveAuthType) ...}
Validation(useExternalAuth, effectiveAuthType, err) ==
  IF ~Truthy(useExternalAuth)
  THEN <<Event("validateAuthMethod", effectiveAuthType, err)>>
  ELSE <<>>

\* err != null
NotNullish(x) == x.t \notin {"null", "undefined"}

\* validateNonInteractiveAuth(configuredAuthType, useExternalAuth, config)
\* with config.getModel() = currentModel, process.env = e, err what
\* validateAuthMethod returns when called and refresh how refreshAuth
\* settles when called.  process.exit ends the process.
validateNonInteractiveAuth(configuredAuthType, useExternalAuth, currentModel, e, err, refresh) ==
  LET effectiveAuthType == EffectiveAuthType(configuredAuthType, currentModel, e)
      validation == Validation(useExternalAuth, effectiveAuthType, err)
  IN  IF ~Truthy(effectiveAuthType)
      THEN [effectiveAuthType |-> effectiveAuthType,
            events |-> <<Event("console.error", SetAuthMessage, Undefined),
                         Event("process.exit", Num(1), Undefined)>>,
            exitCode |-> Num(1),
            outcome |-> None]
      ELSE IF validation # <<>> /\ NotNullish(err)
      THEN [effectiveAuthType |-> effectiveAuthType,
            events |-> validation \o <<Event("console.error", err, Undefined),
                                       Event("process.exit", Num(1), Undefined)>>,
            exitCode |-> Num(1),
            outcome |-> None]
      ELSE [effectiveAuthType |-> effectiveAuthType,
            events |-> validation \o <<Event("refreshAuth", effectiveAuthType, refresh)>>,
            exitCode |-> Undefined,
            outcome |-> IF refresh.kind = "reject"
                        THEN Rejected(refresh.error)
                        ELSE Resolved([t |-> "Config", model |-> currentModel])]


AuthTypes == {LOGIN_WITH_GOOGLE, USE_GEMINI, USE_VERTEX_AI, CLOUD_SHELL, USE_CLAUDE}
FlagValues == {Undefined, Str(TrueText), Str(<<"1">>)}
AuthEnvs ==
  [GOOGLE_GENAI_USE_GCA : FlagValues, GOOGLE_GENAI_USE_VERTEXAI : FlagValues,
   ANTHROPIC_VERTEX_PROJECT_ID : EnvValues, GEMINI_API_KEY : EnvValues]
ModelNames ==
  { ClaudeText \o <<"-", "3">>,
    <<"m", "y", "-">> \o ClaudeText,
    <<"C", "l", "a", "u", "d", "e">>,
    <<"c", "l", "a", "u", "d">>,
    <<"g", "e", "m", "i", "n", "i">> }
ValidationResults == {Null, Str(<<"invalid auth method">>)}
RefreshOutcomes == {VendorResolve(Undefined), VendorReject(NewError(<<"login failed">>))}

AuthCalls ==
  [pc : {"called"},
   configuredAuthType : {Undefined} \cup AuthTypes,
   useExternalAuth : {Undefined, Bool(FALSE), Bool(TRUE)},
   currentModel : ModelNames,
   effectiveAuthType : {Undefined},
   events : {<<>>},
   exitCode : {Undefined},
   outcome : {Pending}]

InitAuth ==
  /\ env \in AuthEnvs
  /\ auth \in AuthCalls
  /\ phase = "new"
  /\ adapter = Undefined
  /\ ctorError = None
  /\ call = NoCall
  /\ adapterCalls = <<>>
  /\ adapterResult = None
  /\ vendorCalls = <<>>
  /\ vendorError = None
  /\ vendorResponse = None
  /\ result = None
  /\ stream = "none"
  /\ vendorStream = "none"
  /\ events = <<>>
  /\ yielded = <<>>
  /\ received = <<>>
  /\ streamError = None
  /\ earlier = None

ValidateNonInteractiveAuth ==
  /\ auth # None
  /\ auth.pc = "called"
  /\ \E err \in ValidationResults, refresh \in RefreshOutcomes :
       LET r == validateNonInteractiveAuth(auth.configuredAuthType, auth.useExternalAuth,
                                           auth.currentModel, env, err, refresh)
       IN  auth' = [auth EXCEPT !.pc = "done",
                                !.effectiveAuthType = r.effectiveAuthType,
                                !.events = r.events,
                                !.exitCode = r.exitCode,
                                !.outcome = r.outcome]
  /\ UNCHANGED <<env, phase, adapter, ctorError, call, adapterCalls, adapterResult,
                 vendorCalls, vendorError, vendorResponse, result, stream, vendorStream,
                 events, yielded, received, streamError, earlier>>

NextAuth == ValidateNonInteractiveAuth

SpecAuth == InitAuth /\ [][NextAuth]_vars

\* The model names that contain 'claude'.
C13_ClaudeNames ==
  { <<"c", "l", "a", "u", "d", "e", "-", "3">>,
    <<"m", "y", "-", "c", "l", "a", "u", "d", "e">> }

\* An environment variable is set: it has a value that is not empty.
C13_IsSet(v) == v.t = "string" /\ v.v # <<>>

C13_Expected ==
  IF auth.currentModel \in C13_ClaudeNames /\ C13_IsSet(env.ANTHROPIC_VERTEX_PROJECT_ID)
    THEN AuthType("USE_CLAUDE")
  ELSE IF auth.configuredAuthType # Undefined THEN auth.configuredAuthType
  ELSE IF env.GOOGLE_GENAI_USE_GCA = Str(<<"t", "r", "u", "e">>)
    THEN AuthType("LOGIN_WITH_GOOGLE")
  ELSE IF env.GOOGLE_GENAI_USE_VERTEXAI = Str(<<"t", "r", "u", "e">>)
    THEN AuthType("USE_VERTEX_AI")
  ELSE IF C13_IsSet(env.ANTHROPIC_VERTEX_PROJECT_ID) THEN AuthType("USE_CLAUDE")
  ELSE IF C13_IsSet(env.GEMINI_API_KEY) THEN AuthType("USE_GEMINI")
  ELSE Undefined

\* C13: the auth method validateNonInteractiveAuth uses is USE_CLAUDE when
\* the model name contains 'claude' and ANTHROPIC_VERTEX_PROJECT_ID is set,
\* whatever auth type is configured; otherwise the configured auth type when
\* there is one; otherwise the first match of GOOGLE_GENAI_USE_GCA = 'true',
\* GOOGLE_GENAI_USE_VERTEXAI = 'true', ANTHROPIC_VERTEX_PROJECT_ID set,
\* GEMINI_API_KEY set; and none when nothing matches.
C13_AuthMethod ==
  (auth # None /\ auth.pc = "done") =>
    /\ auth.effectiveAuthType = C13_Expected
    /\ \A i \in 1..Len(auth.events) :
         auth.events[i].op \in {"validateAuthMethod", "refreshAuth"}
           => auth.events[i].arg = C13_Expected

C13_Witness ==
  /\ auth # None
  /\ auth.pc = "done"
  /\ auth.configuredAuthType = AuthType("USE_GEMINI")
  /\ auth.currentModel \in C13_ClaudeNames
  /\ env.GOOGLE_GENAI_USE_GCA = Str(<<"t", "r", "u", "e">>)
  /\ C13_IsSet(env.ANTHROPIC_VERTEX_PROJECT_ID)
  /\ auth.effectiveAuthType = AuthType("USE_CLAUDE")
  /\ auth.events[Len(auth.events)].op = "refreshAuth"

C16_Calls(op) == {i \in 1..Len(auth.events) : auth.events[i].op = op}

\* C16: refreshAuth is called at most once, with a defined auth type, and
\* only after validateAuthMethod returned no error for that type unless
\* useExternalAuth is set; when no auth type is determined or validation
\* returns an error, an error is printed, the process exits with code 1 and
\* refreshAuth is never called.
C16_RefreshAuth ==
  (auth # None /\ auth.pc = "done") =>
    LET ev == auth.events
        external == auth.useExternalAuth = Bool(TRUE)
        failed == \E i \in C16_Calls("validateAuthMethod") : ev[i].ret # Null
    IN  /\ Cardinality(C16_Calls("refreshAuth")) <= 1
        /\ \A i \in C16_Calls("refreshAuth") :
             /\ ev[i].arg \in AuthTypes
             /\ external
                  \/ \E j \in 1..(i - 1) :
                       /\ ev[j].op = "validateAuthMethod"
                       /\ ev[j].arg = ev[i].arg
                       /\ ev[j].ret = Null
        /\ external => C16_Calls("validateAuthMethod") = {}
        /\ (auth.effectiveAuthType = Undefined \/ failed) =>
             /\ C16_Calls("refreshAuth") = {}
             /\ Len(ev) >= 2
             /\ ev[Len(ev) - 1].op = "console.error"
             /\ ev[Len(ev)] = Event("process.exit", Num(1), Undefined)
             /\ auth.exitCode = Num(1)
        /\ ~(auth.effectiveAuthType = Undefined \/ failed) =>
             /\ Cardinality(C16_Calls("refreshAuth")) = 1
             /\ auth.exitCode = Undefined

C16_Witness ==
  /\ auth # None
  /\ auth.pc = "done"
  /\ auth.useExternalAuth = Bool(FALSE)
  /\ Len(auth.events) = 2
  /\ auth.events[1].op = "validateAuthMethod"
  /\ auth.events[1].ret = Null
  /\ auth.events[2].op = "refreshAuth"
  /\ auth.events[2].arg = auth.events[1].arg


====
